---- MODULE Spec2Model ----
(***************************************************************************)
(* Model of the RL-driven retrieval pipeline of src/app.py: the RLAgent    *)
(* (Q-table, epsilon-greedy choice, Q-learning update, JSON persistence)   *)
(* and the Streamlit script that drives it (main / user_input).            *)
(*                                                                         *)
(* Numbers.  Python floats are modelled as fixed-point integers:           *)
(*   - Q-values, rewards and scores are counted in thousandths (Milli);    *)
(*   - the hyperparameters (learning rate, discount factor, exploration    *)
(*     rate) and random draws are counted in hundredths (Hundred), the     *)
(*     step of the sliders of main.                                        *)
(* A Python dict is a sequence of [k, v] entries with distinct keys, in    *)
(* insertion order (the enumeration order of the dict).                    *)
(* A Python string is the sequence of its characters; the text of a        *)
(* formatted number stands as one element of that sequence.                *)
(***************************************************************************)
EXTENDS Integers, Sequences, FiniteSets, TLC

VARIABLES
    rl_agent,              \* st.session_state.rl_agent (an RLAgent or None)
    conversation_history,  \* st.session_state.conversation_history
    user_question_set,     \* 'user_question' in st.session_state
    rl_model_json,         \* the file rl_model.json
    last,                  \* what the last operation was given and returned
    ops,                   \* number of operations so far
    faiss_index,           \* the directory faiss_index
    threads                \* the calls in progress side by side, and their locals

vars == <<rl_agent, conversation_history, user_question_set, rl_model_json, last, ops,
          faiss_index, threads>>

----------------------------------------------------------------------------
(* Units and bounds *)

Milli == 10 * 10 * 10
Hundred == 10 * 10

\* Longest run of the RLAgent operations explored by AgentSpec.
MaxOps == 3

\* Longest sequence of script runs explored by Spec.
MaxRuns == 2

----------------------------------------------------------------------------
(* Python values *)

\* The five actions, in the order the code lists them.
chunking_actions == <<"chunk_small", "chunk_medium", "chunk_large">>

retrieval_actions == <<"similarity_standard", "similarity_mmr">>

available_actions == chunking_actions \o retrieval_actions

\* None where a state key (a joined string) is expected.
NoneKey == <<"None">>

\* Python truthiness of an optional string: None and "" are falsy.
Truthy(s) == s /= NoneKey /\ s /= <<>>

Range(seq) == {seq[i] : i \in 1..Len(seq)}

\* F(v), with v evaluated once: a local variable holding the value of a call.
Local(v, F(_)) == CHOOSE y \in {F(x) : x \in {v}} : TRUE

----------------------------------------------------------------------------
(* dict: a sequence of [k, v] entries, keys distinct, in insertion order *)

EmptyDict == <<>>

Keys(d) == {d[i].k : i \in 1..Len(d)}

Has(d, key) == key \in Keys(d)

IndexOf(d, key) == CHOOSE i \in 1..Len(d) : d[i].k = key

\* d[key]
Get(d, key) == d[IndexOf(d, key)].v

\* d[key] = val: an existing key keeps its place, a new key goes last.
Put(d, key, val) ==
    IF Has(d, key)
    THEN [d EXCEPT ![IndexOf(d, key)] = [k |-> key, v |-> val]]
    ELSE Append(d, [k |-> key, v |-> val])

\* {a: 0.0 for a in actions}
ZeroRow(actions) == [i \in 1..Len(actions) |-> [k |-> actions[i], v |-> 0]]

\* max(row.values())
MaxValue(row) == CHOOSE m \in {row[i].v : i \in 1..Len(row)} :
                     \A i \in 1..Len(row) : row[i].v <= m

\* As ArgMaxFirst, but the last of the entries that share the maximum.
ArgMaxLast(row) ==
    row[CHOOSE i \in 1..Len(row) :
            /\ \A j \in 1..Len(row) : row[j].v <= row[i].v
            /\ \A j \in (i + 1)..Len(row) : row[j].v < row[i].v].k

\* max(row.items(), key=lambda x: x[1])[0]: the first entry whose value no
\* other entry exceeds.
ArgMaxFirst(row) ==
    row[CHOOSE i \in 1..Len(row) :
            /\ \A j \in 1..Len(row) : row[j].v <= row[i].v
            /\ \A j \in 1..(i - 1) : row[j].v < row[i].v].k

----------------------------------------------------------------------------
(* Numbers *)

Min(a, b) == IF a <= b THEN a ELSE b

\* f"{x:.2f}": a value in thousandths rounded to hundredths (ties to even),
\* as the text of the number of hundredths.
Round2(x) ==
    LET base == x \div 10
        r == x % 10
    IN  IF r < 5 THEN base
        ELSE IF r > 5 THEN base + 1
        ELSE IF base % 2 = 0 THEN base ELSE base + 1

Fmt2(x) == <<ToString(Round2(x))>>

RECURSIVE Join(_, _)
\* sep.join(parts): the parts and sep are strings, and so is the result.
Join(parts, sep) ==
    IF Len(parts) = 0 THEN <<>>
    ELSE IF Len(parts) = 1 THEN parts[1]
    ELSE parts[1] \o sep \o Join(Tail(parts), sep)

\* seq[:n]
Take(seq, n) == SubSeq(seq, 1, Min(n, Len(seq)))

----------------------------------------------------------------------------
(* class RLAgent *)

\* RLAgent(): the constructor defaults.
DefaultLearningRate == 10
DefaultDiscountFactor == 90
DefaultExplorationRate == 20

RLAgent ==
    [none |-> FALSE,
     q_table |-> EmptyDict,
     learning_rate |-> DefaultLearningRate,
     discount_factor |-> DefaultDiscountFactor,
     exploration_rate |-> DefaultExplorationRate]

\* None where an RLAgent is expected.
NoneAgent ==
    [none |-> TRUE, q_table |-> EmptyDict,
     learning_rate |-> 0, discount_factor |-> 0, exploration_rate |-> 0]

\* As canonical_actions, but the literal list lacks the last action.
canonical_actions_without_mmr ==
    <<"chunk_small", "chunk_medium", "chunk_large", "similarity_standard">>

\* The literal list of update_q_value.
canonical_actions ==
    <<"chunk_small", "chunk_medium", "chunk_large",
      "similarity_standard", "similarity_mmr">>

\* RLAgent.get_state_key
get_state_key(question_embedding, document_ids) ==
    Join([i \in 1..Min(5, Len(question_embedding)) |-> Fmt2(question_embedding[i])],
         <<"-">>)
        \o <<"-">> \o Join(Take(document_ids, 3), <<"-">>)

\* random.random() < self.exploration_rate, u the draw in [0, 1)
Explores(agent, u) == u < agent.exploration_rate

\* As ChooseInitRow, but with the literal list of update_q_value.
ChooseInitRowCanonical(avail) == ZeroRow(canonical_actions)

\* The row choose_action creates for a state it has not seen.
ChooseInitRow(avail) == ZeroRow(avail)

\* RLAgent.choose_action; u is the draw of random.random(), pick the index
\* random.choice draws.  Returns the agent after the call and the action.
choose_action(agent, state_key, avail, u, pick) ==
    IF Explores(agent, u)
    THEN [agent |-> agent, ret |-> avail[pick], explored |-> TRUE]
    ELSE LET q1 == IF ~Has(agent.q_table, state_key)
                   THEN Put(agent.q_table, state_key, ChooseInitRow(avail))
                   ELSE agent.q_table
         IN  [agent |-> [agent EXCEPT !.q_table = q1],
              ret |-> ArgMaxFirst(Get(q1, state_key)),
              explored |-> FALSE]

\* max_next_q of update_q_value, on the table after the row of state exists.
MaxNextQ(q, next_state) ==
    IF Truthy(next_state) /\ Has(q, next_state)
    THEN MaxValue(Get(q, next_state))
    ELSE 0

\* As QUpdate, but the old value is not subtracted from the target.
QUpdateNoOld(old, learning_rate, reward, discount_factor, max_next_q) ==
    old + (learning_rate * (Hundred * reward + discount_factor * max_next_q))
              \div (Hundred * Hundred)

\* The Q-learning update formula.
QUpdate(old, learning_rate, reward, discount_factor, max_next_q) ==
    old + (learning_rate * (Hundred * reward + discount_factor * max_next_q
                            - Hundred * old)) \div (Hundred * Hundred)

\* As UpdateWriteValue, but the target is left out: the value read is written
\* back.
UpdateWriteValueKeepsRead(read1, read2, learning_rate, reward, discount_factor, max_next_q) == read1

\* The value the assignment of update_q_value stores: its right-hand side
\* reads self.q_table[state][action] twice, read1 the first read and read2
\* the second.
UpdateWriteValue(read1, read2, learning_rate, reward, discount_factor, max_next_q) ==
    read1 + (learning_rate * (Hundred * reward + discount_factor * max_next_q
                              - Hundred * read2)) \div (Hundred * Hundred)

\* RLAgent.update_q_value.  exc: the call raised (KeyError: the row of state
\* has no entry for action).
update_q_value(agent, state, action, reward, next_state) ==
    LET q1 == IF ~Has(agent.q_table, state)
              THEN Put(agent.q_table, state, ZeroRow(canonical_actions))
              ELSE agent.q_table
        row == Get(q1, state)
        max_next_q == MaxNextQ(q1, next_state)
    IN  IF ~Has(row, action)
        THEN [agent |-> [agent EXCEPT !.q_table = q1], exc |-> TRUE]
        ELSE [agent |-> [agent EXCEPT !.q_table =
                  Put(q1, state,
                      Put(row, action,
                          QUpdate(Get(row, action), agent.learning_rate, reward,
                                  agent.discount_factor, max_next_q)))],
              exc |-> FALSE]

----------------------------------------------------------------------------
(* rl_model.json *)

\* As FloatRepr, but with two digits after the point.
FloatReprTwoDigits(v) == [whole |-> v \div Milli, frac |-> ((v % Milli) \div 10) * 10]

\* json's text of a float: the whole part and the three digits after the point.
FloatRepr(v) == [whole |-> v \div Milli, frac |-> v % Milli]

FloatParse(t) == t.whole * Milli + t.frac

\* json.dump(q_table): the text of the file, entry by entry.
json_dump(q) ==
    [i \in 1..Len(q) |->
        [k |-> q[i].k,
         v |-> [j \in 1..Len(q[i].v) |->
                   [k |-> q[i].v[j].k, v |-> FloatRepr(q[i].v[j].v)]]]]

\* json.load(f)
json_load(text) ==
    [i \in 1..Len(text) |->
        [k |-> text[i].k,
         v |-> [j \in 1..Len(text[i].v) |->
                   [k |-> text[i].v[j].k, v |-> FloatParse(text[i].v[j].v)]]]]

\* No file; a file json.dump wrote completely; a file that is not JSON.
AbsentFile == [status |-> "absent", text |-> <<>>]

WrittenFile(q) == [status |-> "ok", text |-> json_dump(q)]

MalformedFile == [status |-> "bad", text |-> <<>>]

\* How a save_model call can end: written; open() raises and the file is as it
\* was; the write raises after open() truncated the file.
SaveOutcomes == {"ok", "open_fails", "dump_fails"}

\* RLAgent.save_model
save_model(agent, file, outcome) ==
    CASE outcome = "ok" -> [file |-> WrittenFile(agent.q_table), exc |-> FALSE]
      [] outcome = "open_fails" -> [file |-> file, exc |-> TRUE]
      [] outcome = "dump_fails" -> [file |-> MalformedFile, exc |-> TRUE]

\* As load_model, but without the os.path.exists test: open() raises when
\* there is no file.
load_model_unguarded(agent, file) ==
    IF file.status = "ok"
    THEN [agent |-> [agent EXCEPT !.q_table = json_load(file.text)], exc |-> FALSE]
    ELSE [agent |-> agent, exc |-> TRUE]

\* RLAgent.load_model.  exc: json.load raised.
load_model(agent, file) ==
    IF file.status = "absent" THEN [agent |-> agent, exc |-> FALSE]
    ELSE IF file.status = "bad" THEN [agent |-> agent, exc |-> TRUE]
    ELSE [agent |-> [agent EXCEPT !.q_table = json_load(file.text)], exc |-> FALSE]

----------------------------------------------------------------------------
(* The directory faiss_index *)

\* No directory yet.
NoIndex == [status |-> "absent", built_in |-> 0, chunk |-> <<0, 0>>, pdf_docs |-> <<>>]

\* get_text_chunks on the text of pdf_docs: the chunks are told by the text
\* they come from and the size and overlap they were cut with.
get_text_chunks(pdf_docs, chunk) == [pdf_docs |-> pdf_docs, chunk |-> chunk]

\* As get_vector_store, but the index is not saved.
get_vector_store_unsaved(text_chunks, pass, index_dir) == index_dir

\* get_vector_store: FAISS.from_texts(text_chunks) and save_local to the
\* fixed path, over what was there.  pass tells the builds apart: the number
\* of the pass that built the index.
get_vector_store(text_chunks, pass, index_dir) ==
    [status |-> "saved", built_in |-> pass, chunk |-> text_chunks.chunk,
     pdf_docs |-> text_chunks.pdf_docs]

\* FAISS.load_local("faiss_index", ...): the index the directory holds.
load_local(index_dir) == index_dir

\* No calls in progress.
NoThreads == <<>>

----------------------------------------------------------------------------
(* Inputs *)

\* Embeddings the embedding service returns for questions, in thousandths.
\* The first two differ only beyond the second decimal and in the sixth
\* component.
QuestionEmbeddings ==
    {<<124, -450, 0, 1000, 15, 777>>,
     <<121, -450, 0, 1000, 25, 555>>,
     <<900, 0, 0, 0, 0, 0>>}

\* Names of uploaded files.
ReportPdf == <<"M", "e", "m", "o", "2", "1", ".", "p", "d", "f">>

NotesPdf == <<"b", ".", "p", "d", "f">>

\* Draws of random.random(), in hundredths.
Draws == {0, 50}

\* Settings of the hyperparameters (learning rate, discount factor,
\* exploration rate), in hundredths: no learning; the reward taken as it is;
\* the defaults with a faster learning rate; always exploring.
Hyperparameters == {<<0, 90, 0>>, <<100, 0, 0>>, <<50, 90, 20>>, <<50, 90, 100>>}

\* Rewards, in thousandths.
Rewards == {375, 1000}

\* Lists of actions passed to choose_action: the five, and a part of them.
AvailChoices == {available_actions, retrieval_actions}

\* Actions passed to update_q_value: the first and the last of the five, and
\* one between.
UpdateActions == {"chunk_small", "chunk_large", "similarity_mmr"}

----------------------------------------------------------------------------
(* What the last operation was given and what it returned *)

NoLast ==
    [op |-> "init", state |-> NoneKey, action |-> "", reward |-> 0,
     next_state |-> NoneKey, avail |-> <<>>, u |-> 0, explored |-> FALSE,
     exc |-> FALSE, outcome |-> "", was_seen |-> FALSE, after_save |-> FALSE,
     button |-> "", asked |-> FALSE, api_key |-> <<>>, path |-> "",
     failed |-> "", returned |-> "", unhandled |-> FALSE, reported |-> FALSE,
     answer_calls |-> 0, question |-> <<>>, pdf_docs |-> <<>>, is_pdf |-> FALSE,
     docs |-> <<>>, answer_len |-> 0, similarity |-> 0, length_score |-> 0,
     log_before |-> 0, chunk |-> <<0, 0>>, search |-> "", searched |-> NoIndex,
     initial |-> 0, overlap |-> FALSE, finished |-> <<>>]

----------------------------------------------------------------------------
(* AgentSpec: the RLAgent on its own, its methods called in any order *)

AgentKeys == {get_state_key(e, <<Take(ReportPdf, 5)>>) : e \in QuestionEmbeddings}

AgentInit ==
    /\ \E h \in Hyperparameters :
          rl_agent = [RLAgent EXCEPT !.learning_rate = h[1],
                                     !.discount_factor = h[2],
                                     !.exploration_rate = h[3]]
    /\ conversation_history = <<>>
    /\ user_question_set = FALSE
    /\ rl_model_json = AbsentFile
    /\ last = NoLast
    /\ ops = 0
    /\ faiss_index = NoIndex
    /\ threads = NoThreads

AgentChoose ==
    /\ ops < MaxOps
    /\ \E s \in AgentKeys, av \in AvailChoices, u \in Draws :
       \E pick \in 1..Len(av) :
          LET r == choose_action(rl_agent, s, av, u, pick)
          IN  /\ rl_agent' = r.agent
              /\ last' = [NoLast EXCEPT !.op = "choose_action", !.state = s,
                                        !.avail = av, !.u = u,
                                        !.was_seen = Has(rl_agent.q_table, s),
                                        !.action = r.ret, !.explored = r.explored]
    /\ ops' = ops + 1
    /\ UNCHANGED <<conversation_history, user_question_set, rl_model_json,
                   faiss_index, threads>>

AgentUpdate ==
    /\ ops < MaxOps
    /\ \E s \in AgentKeys, a \in UpdateActions, rw \in Rewards,
          nx \in AgentKeys \cup {NoneKey} :
          LET r == update_q_value(rl_agent, s, a, rw, nx)
          IN  /\ rl_agent' = r.agent
              /\ last' = [NoLast EXCEPT !.op = "update_q_value", !.state = s,
                                        !.action = a, !.reward = rw,
                                        !.next_state = nx, !.exc = r.exc,
                                        !.was_seen = Has(rl_agent.q_table, s)]
    /\ ops' = ops + 1
    /\ UNCHANGED <<conversation_history, user_question_set, rl_model_json,
                   faiss_index, threads>>

AgentSave ==
    /\ ops < MaxOps
    /\ \E outcome \in SaveOutcomes :
          LET r == save_model(rl_agent, rl_model_json, outcome)
          IN  /\ rl_model_json' = r.file
              /\ last' = [NoLast EXCEPT !.op = "save_model", !.exc = r.exc,
                                        !.outcome = outcome]
    /\ ops' = ops + 1
    /\ UNCHANGED <<rl_agent, conversation_history, user_question_set,
                   faiss_index, threads>>

AgentLoad ==
    /\ ops < MaxOps
    /\ LET r == load_model(rl_agent, rl_model_json)
       IN  /\ rl_agent' = r.agent
           /\ last' = [NoLast EXCEPT !.op = "load_model", !.exc = r.exc,
                                     !.outcome = rl_model_json.status,
                                     !.after_save =
                                         (last.op = "save_model" /\ ~last.exc)]
    /\ ops' = ops + 1
    /\ UNCHANGED <<conversation_history, user_question_set, rl_model_json,
                   faiss_index, threads>>

AgentNext == AgentChoose \/ AgentUpdate \/ AgentSave \/ AgentLoad

AgentSpec == AgentInit /\ [][AgentNext]_vars

----------------------------------------------------------------------------
(* Claims about the RLAgent (AgentSpec) *)

\* The entry of action a in the row of state s, 0 where the table has none.
EntryOrZero(q, s, a) ==
    IF Has(q, s) /\ Has(Get(q, s), a) THEN Get(Get(q, s), a) ELSE 0

\* The largest value of the row of s.
LargestOfRow(q, s) ==
    CHOOSE m \in {Get(Get(q, s), a) : a \in Keys(Get(q, s))} :
        \A a \in Keys(Get(q, s)) : Get(Get(q, s), a) <= m

\* C1: a call update_q_value(state, action, reward, next_state) that returns
\* sets Q[state][action] to old + learning_rate * (reward + discount_factor *
\* maxNextQ - old), with maxNextQ the largest value of next_state's row when
\* next_state is not None and in the table, else 0, and old = 0 in a row the
\* call creates (zero for the five actions); with learning_rate = 1 and
\* discount_factor = 0 a zero entry becomes the reward, and with
\* learning_rate = 0 the entry keeps its value.
C1_UpdateRule ==
    [][(last'.op = "update_q_value" /\ ~last'.exc) =>
         LET q == rl_agent.q_table
             q2 == rl_agent'.q_table
             s == last'.state
             a == last'.action
             rw == last'.reward
             nx == last'.next_state
             lr == rl_agent.learning_rate
             df == rl_agent.discount_factor
             old == EntryOrZero(q, s, a)
             maxNextQ == IF nx /= NoneKey /\ Has(q, nx) THEN LargestOfRow(q, nx) ELSE 0
             new == EntryOrZero(q2, s, a)
         IN  /\ Has(q2, s) /\ Has(Get(q2, s), a)
             /\ 100 * 100 * (new - old) <= lr * (100 * rw + df * maxNextQ - 100 * old)
             /\ 100 * 100 * (new - old + 1) > lr * (100 * rw + df * maxNextQ - 100 * old)
             /\ (~Has(q, s) =>
                    /\ Keys(Get(q2, s)) = {"chunk_small", "chunk_medium", "chunk_large",
                                           "similarity_standard", "similarity_mmr"}
                    /\ \A b \in Keys(Get(q2, s)) \ {a} : Get(Get(q2, s), b) = 0)
             /\ (lr = 100 /\ df = 0 /\ old = 0 => new = rw)
             /\ (lr = 0 => new = old)]_vars

\* C1's case: an update with a positive learning rate and discount factor
\* whose next_state has a row with a positive value.
C1_Witness ==
    /\ last.op = "update_q_value" /\ ~last.exc
    /\ rl_agent.learning_rate > 0 /\ rl_agent.discount_factor > 0
    /\ last.next_state /= NoneKey /\ last.next_state /= last.state
    /\ Has(rl_agent.q_table, last.next_state)
    /\ LargestOfRow(rl_agent.q_table, last.next_state) > 0
    /\ EntryOrZero(rl_agent.q_table, last.state, last.action) > last.reward \div 2

\* C2: with exploration_rate = 0, choose_action returns an action of the
\* state's row that no entry of the row exceeds and that every entry before
\* it in the row is below.
C2_GreedyFirstMax ==
    [][(last'.op = "choose_action" /\ rl_agent.exploration_rate = 0) =>
         LET q2 == rl_agent'.q_table
             s == last'.state
             a == last'.action
         IN  /\ Has(q2, s) /\ Has(Get(q2, s), a)
             /\ \A j \in 1..Len(Get(q2, s)) :
                    /\ Get(q2, s)[j].v <= Get(Get(q2, s), a)
                    /\ (Get(q2, s)[j].v = Get(Get(q2, s), a)
                            => IndexOf(Get(q2, s), a) <= j)]_vars

\* C2's case: a greedy choice in a row where two actions share a positive
\* maximum and a third is below it.
C2_Witness ==
    /\ last.op = "choose_action" /\ rl_agent.exploration_rate = 0
    /\ Has(rl_agent.q_table, last.state)
    /\ LET row == Get(rl_agent.q_table, last.state)
       IN  /\ LargestOfRow(rl_agent.q_table, last.state) > 0
           /\ Cardinality({j \in 1..Len(row) :
                  row[j].v = LargestOfRow(rl_agent.q_table, last.state)}) = 2
           /\ row[1].v = 0

\* C3 as claimed: every choose_action call for a state that has no row leaves
\* the state with a zero row for the five actions.
C3_AsClaimed ==
    [][(last'.op = "choose_action" /\ ~Has(rl_agent.q_table, last'.state)) =>
         /\ Has(rl_agent'.q_table, last'.state)
         /\ Get(rl_agent'.q_table, last'.state) =
                [i \in 1..5 |-> [k |-> canonical_actions[i], v |-> 0]]]_vars

\* C3, amended: a choose_action call for a state that has no row leaves the
\* table as it was when it explores (the draw is below exploration_rate), and
\* otherwise adds for the state a zero row for the actions of the list it was
\* passed, in the list's order, and returns the first action of that list.
C3_LazyInit ==
    [][(last'.op = "choose_action" /\ ~Has(rl_agent.q_table, last'.state)) =>
         IF last'.u < rl_agent.exploration_rate
         THEN rl_agent'.q_table = rl_agent.q_table
         ELSE /\ rl_agent'.q_table =
                    Append(rl_agent.q_table,
                           [k |-> last'.state,
                            v |-> [i \in 1..Len(last'.avail) |->
                                      [k |-> last'.avail[i], v |-> 0]]])
              /\ last'.action = last'.avail[1]]_vars

\* C3's case: a greedy call for an unseen state with a list that is not the
\* five actions.
C3_Witness ==
    /\ last.op = "choose_action" /\ ~last.was_seen /\ ~last.explored
    /\ last.avail = retrieval_actions
    /\ Has(rl_agent.q_table, last.state)
    /\ Keys(Get(rl_agent.q_table, last.state)) = Range(retrieval_actions)

C11_LoadAbsent ==
    [][(last'.op = "load_model" /\ rl_model_json.status = "absent") =>
         /\ ~last'.exc
         /\ rl_agent'.q_table = rl_agent.q_table
         /\ (ops = 0 => rl_agent'.q_table = EmptyDict)]_vars

\* C11's case: load_model was the first call on a constructed agent, with no
\* file.
C11_Witness ==
    /\ last.op = "load_model" /\ last.outcome = "absent"
    /\ ops = 1 /\ rl_agent.q_table = EmptyDict

----------------------------------------------------------------------------
(* Strings *)

UpperToLower ==
    ("A" :> "a") @@ ("B" :> "b") @@ ("C" :> "c") @@ ("D" :> "d") @@ ("E" :> "e") @@ ("F" :> "f") @@ ("G" :> "g") @@ ("H" :> "h") @@ ("I" :> "i") @@ ("J" :> "j") @@ ("K" :> "k") @@ ("L" :> "l") @@ ("M" :> "m")
    @@ ("N" :> "n") @@ ("O" :> "o") @@ ("P" :> "p") @@ ("Q" :> "q") @@ ("R" :> "r") @@ ("S" :> "s") @@ ("T" :> "t") @@ ("U" :> "u") @@ ("V" :> "v") @@ ("W" :> "w") @@ ("X" :> "x") @@ ("Y" :> "y") @@ ("Z" :> "z")

LowerChar(c) == IF c \in DOMAIN UpperToLower THEN UpperToLower[c] ELSE c

\* s.lower()
Lower(s) == [i \in 1..Len(s) |-> LowerChar(s[i])]

\* p in t
IsSubstr(p, t) ==
    \E i \in 0..(Len(t) - Len(p)) : SubSeq(t, i + 1, i + Len(p)) = p

RECURSIVE Remove(_, _)
\* s.replace(p, '')
Remove(s, p) ==
    IF Len(p) = 0 \/ Len(s) < Len(p) THEN s
    ELSE IF SubSeq(s, 1, Len(p)) = p THEN Remove(SubSeq(s, Len(p) + 1, Len(s)), p)
    ELSE <<s[1]>> \o Remove(Tail(s), p)

RECURSIVE SplitAcc(_, _)
SplitAcc(s, cur) ==
    IF Len(s) = 0 THEN (IF Len(cur) = 0 THEN <<>> ELSE <<cur>>)
    ELSE IF s[1] = " "
         THEN (IF Len(cur) = 0 THEN <<>> ELSE <<cur>>) \o SplitAcc(Tail(s), <<>>)
         ELSE SplitAcc(Tail(s), Append(cur, s[1]))

\* s.split()
Split(s) == SplitAcc(s, <<>>)

RECURSIVE Sum(_)
Sum(seq) == IF Len(seq) = 0 THEN 0 ELSE seq[1] + Sum(Tail(seq))

----------------------------------------------------------------------------
(* Classification and reward *)

DotPdf == <<".", "p", "d", "f">>

pdf_indicators ==
    <<<<"p", "d", "f">>,
      <<"d", "o", "c", "u", "m", "e", "n", "t">>,
      <<"f", "i", "l", "e">>,
      <<"t", "e", "x", "t">>,
      <<"c", "o", "n", "t", "e", "n", "t">>,
      <<"r", "e", "a", "d">>,
      <<"e", "x", "t", "r", "a", "c", "t">>,
      <<"f", "r", "o", "m", " ", "t", "h", "e", " ", "d", "o", "c", "u", "m", "e", "n", "t">>,
      <<"i", "n", " ", "t", "h", "e", " ", "p", "d", "f">>,
      <<"m", "e", "n", "t", "i", "o", "n", "e", "d", " ", "i", "n">>>>

conversational_starters ==
    <<<<"h", "o", "w", " ", "a", "r", "e", " ", "y", "o", "u">>,
      <<"w", "h", "a", "t", " ", "i", "s", " ", "y", "o", "u", "r", " ", "n", "a", "m", "e">>,
      <<"t", "e", "l", "l", " ", "m", "e", " ", "a", "b", "o", "u", "t", " ", "y", "o", "u", "r", "s", "e", "l", "f">>,
      <<"w", "h", "o", " ", "a", "r", "e", " ", "y", "o", "u">>,
      <<"w", "h", "a", "t", " ", "c", "a", "n", " ", "y", "o", "u", " ", "d", "o">>,
      <<"h", "e", "l", "l", "o">>,
      <<"h", "i", " ">>,
      <<"h", "e", "y">>,
      <<"t", "h", "a", "n", "k", "s">>,
      <<"t", "h", "a", "n", "k", " ", "y", "o", "u">>,
      <<"h", "e", "l", "p", " ", "m", "e">>,
      <<"c", "a", "n", " ", "y", "o", "u", " ", "h", "e", "l", "p">>,
      <<"I", " ", "n", "e", "e", "d", " ", "h", "e", "l", "p">>,
      <<"w", "h", "a", "t", "'", "s", " ", "t", "h", "e", " ", "w", "e", "a", "t", "h", "e", "r">>,
      <<"w", "h", "o", " ", "m", "a", "d", "e", " ", "y", "o", "u">>,
      <<"h", "o", "w", " ", "d", "o", " ", "y", "o", "u", " ", "w", "o", "r", "k">>>>

\* As is_pdf_related_question, but the openers are tested first.
is_pdf_related_question_openers_first(question, pdf_docs) ==
    IF Len(pdf_docs) = 0 THEN FALSE
    ELSE IF \E i \in 1..Len(conversational_starters) :
                IsSubstr(Lower(conversational_starters[i]), Lower(question))
         THEN FALSE
    ELSE TRUE

\* As is_pdf_related_question, but without the test for no uploads.
is_pdf_related_question_untested_docs(question, pdf_docs) ==
    IF \E i \in 1..Len(pdf_docs) :
           IsSubstr(Remove(Lower(pdf_docs[i]), DotPdf), Lower(question))
    THEN TRUE
    ELSE IF \E i \in 1..Len(pdf_indicators) :
                IsSubstr(Lower(pdf_indicators[i]), Lower(question))
         THEN TRUE
    ELSE IF \E i \in 1..Len(conversational_starters) :
                IsSubstr(Lower(conversational_starters[i]), Lower(question))
         THEN FALSE
    ELSE TRUE

\* is_pdf_related_question; a pdf is its name, and pdf_docs = None is <<>>
\* (the code only tests "not pdf_docs").
is_pdf_related_question(question, pdf_docs) ==
    IF Len(pdf_docs) = 0 THEN FALSE
    ELSE IF \E i \in 1..Len(pdf_docs) :
                IsSubstr(Remove(Lower(pdf_docs[i]), DotPdf), Lower(question))
         THEN TRUE
    ELSE IF \E i \in 1..Len(pdf_indicators) :
                IsSubstr(Lower(pdf_indicators[i]), Lower(question))
         THEN TRUE
    ELSE IF \E i \in 1..Len(conversational_starters) :
                IsSubstr(Lower(conversational_starters[i]), Lower(question))
         THEN FALSE
    ELSE TRUE

\* get_document_similarity, in thousandths; a doc is its page_content.
get_document_similarity(question, docs) ==
    LET keywords == Split(Lower(question))
        matches(doc) == Cardinality({i \in 1..Len(keywords) :
                                        IsSubstr(keywords[i], Lower(doc))})
        score(doc) == IF Len(keywords) > 0
                      THEN (matches(doc) * Milli) \div Len(keywords)
                      ELSE 0
        total_score == Sum([i \in 1..Len(docs) |-> score(docs[i])])
    IN  IF Len(docs) > 0 THEN total_score \div Len(docs) ELSE 0

\* As response_length_score, but without the cap at 1.0.
response_length_score_uncapped(answer_len) == answer_len

\* min(len(response_output) / 1000, 1.0), in thousandths.
response_length_score(answer_len) == Min(answer_len, Milli)

\* reward = (doc_similarity_score * 0.7) + (response_length_score * 0.3)
Reward(question, docs, answer_len) ==
    (get_document_similarity(question, docs) * 7
        + response_length_score(answer_len) * 3) \div 10

\* The chunk_size and chunk_overlap the chosen action gives get_text_chunks.
ChunkParams(chosen_action) ==
    IF chosen_action = "chunk_small" THEN <<5000, 500>>
    ELSE IF chosen_action = "chunk_medium" THEN <<10000, 1000>>
    ELSE <<15000, 1500>>

\* The search the chosen action selects.
SearchStrategy(chosen_action) ==
    IF chosen_action = "similarity_mmr" THEN "max_marginal_relevance_search"
    ELSE "similarity_search"

----------------------------------------------------------------------------
(* ClassifySpec: is_pdf_related_question applied to a question and uploads *)

\* How a question starts and how it goes on.
QuestionOpenings ==
    {<<>>, <<"H", "e", "l", "l", "o", " ">>, <<"h", "i", " ">>, <<"T", "H", "A", "N", "K", "S", " ">>, <<"w", "h", "o", " ", "a", "r", "e", " ", "Y", "o", "u", " ">>}

QuestionRests ==
    {<<"s", "a", "l", "e", "s", " ", "u", "p">>, <<"r", "e", "a", "d", " ", "i", "t">>, <<"M", "e", "m", "o", "2", "1", " ", "x">>, <<"i", "n", " ", "t", "h", "e", " ", "P", "D", "F">>, <<"g", "o", " ", "o", "n">>}

ClassifyQuestions == {o \o r : o \in QuestionOpenings, r \in QuestionRests}

ClassifyDocs == {<<>>, <<ReportPdf>>, <<ReportPdf, NotesPdf>>}

ClassifyInit ==
    /\ rl_agent = RLAgent
    /\ conversation_history = <<>>
    /\ user_question_set = FALSE
    /\ rl_model_json = AbsentFile
    /\ \E q \in ClassifyQuestions, d \in ClassifyDocs :
          last = [NoLast EXCEPT !.op = "question", !.question = q, !.pdf_docs = d]
    /\ ops = 0
    /\ faiss_index = NoIndex
    /\ threads = NoThreads

Classify ==
    /\ ops = 0
    /\ last' = [last EXCEPT !.op = "is_pdf_related_question",
                            !.is_pdf = is_pdf_related_question(last.question,
                                                               last.pdf_docs)]
    /\ ops' = 1
    /\ UNCHANGED <<rl_agent, conversation_history, user_question_set, rl_model_json,
                   faiss_index, threads>>

ClassifyNext == Classify

ClassifySpec == ClassifyInit /\ [][ClassifyNext]_vars

\* The question holds one of the conversational openers.
MatchesOpener(question) ==
    \E i \in 1..Len(conversational_starters) :
        IsSubstr(Lower(conversational_starters[i]), Lower(question))

\* The question holds the name of an upload, ".pdf" left out, or one of the
\* indicator words.
MentionsDocument(question, pdf_docs) ==
    \/ \E i \in 1..Len(pdf_docs) :
           IsSubstr(Remove(Lower(pdf_docs[i]), DotPdf), Lower(question))
    \/ \E i \in 1..Len(pdf_indicators) :
           IsSubstr(Lower(pdf_indicators[i]), Lower(question))

\* C13 as claimed: with uploads, a question that holds an opener is general,
\* and every other question is document-related.
C13_OpenersFirst ==
    (last.op = "is_pdf_related_question" /\ Len(last.pdf_docs) > 0) =>
        (last.is_pdf <=> ~MatchesOpener(last.question))

\* C13, amended: with uploads, a question that holds an upload's name or an
\* indicator word is document-related; otherwise a question that holds an
\* opener is general; otherwise the question is document-related.
C13_MentionsFirst ==
    (last.op = "is_pdf_related_question" /\ Len(last.pdf_docs) > 0) =>
        (last.is_pdf <=>
            IF MentionsDocument(last.question, last.pdf_docs) THEN TRUE
            ELSE IF MatchesOpener(last.question) THEN FALSE
            ELSE TRUE)

\* C13's case: a question with an opener and an indicator word was classified
\* with uploads.
C13_Witness ==
    /\ last.op = "is_pdf_related_question" /\ Len(last.pdf_docs) > 0
    /\ MatchesOpener(last.question)
    /\ MentionsDocument(last.question, last.pdf_docs)
    /\ last.is_pdf

----------------------------------------------------------------------------
(* Inputs of a script run *)

HelloQuestion == <<"H", "e", "l", "l", "o">>

RevenueQuestion == <<"s", "a", "l", "e", "s", " ", "u", "p">>

PdfQuestion == <<"h", "i", " ", "p", "d", "f">>

RevenuePassage == <<"S", "a", "l", "e", "s", " ", "r", "o", "s", "e">>

OtherPassage == <<"n", "/", "a">>

\* The api_key arguments: None, the text of an empty input box, a key.
NoApiKey == NoneKey

EmptyApiKey == <<>>

GoodApiKey == <<"k", "e", "y">>

\* The external services answer only a call made with a key.
KeyAccepted(api_key) == api_key = GoodApiKey

\* The text of the question box; empty when nothing is asked.
Questions == {HelloQuestion, RevenueQuestion}

\* The embedding the embedding service returns for a question: the service
\* is a function of the text.  The first two questions get embeddings that
\* differ only beyond the second decimal and in the sixth component.
EmbedQuery(user_question) ==
    IF user_question = RevenueQuestion THEN <<124, -450, 0, 1000, 15, 777>>
    ELSE IF user_question = PdfQuestion THEN <<121, -450, 0, 1000, 25, 555>>
    ELSE <<900, 0, 0, 0, 0, 0>>

\* The uploaded files.
PdfDocChoices == {<<>>, <<ReportPdf, NotesPdf>>}

ChatModes == {"Hybrid (Auto-detect)", "PDF Only", "General Only"}

ApiKeys == {NoApiKey, EmptyApiKey, GoodApiKey}

\* Positions of the two sliders, in hundredths.
SliderLearningRates == {50}

SliderExplorationRates == {20}

\* What the search returns and how long the answer is.
PassOutcomes ==
    {[docs |-> <<>>, answer_len |-> 400],
     [docs |-> <<RevenuePassage, OtherPassage>>, answer_len |-> 2000]}

NoExt ==
    [fail |-> "none", u |-> 0, pick |-> 1, embedding |-> <<>>, docs |-> <<>>,
     answer_len |-> 0, save |-> "ok"]


\* is_pdf_related_question and the reward on the inputs of the runs, worked
\* out once.
ClassificationOfInputs ==
    [q \in Questions, d \in PdfDocChoices |-> is_pdf_related_question(q, d)]

IsPdfQuestion(user_question, pdf_docs) ==
    IF <<user_question, pdf_docs>> \in DOMAIN ClassificationOfInputs
    THEN ClassificationOfInputs[user_question, pdf_docs]
    ELSE is_pdf_related_question(user_question, pdf_docs)

RewardOfInputs ==
    [q \in Questions, o \in PassOutcomes |-> Reward(q, o.docs, o.answer_len)]

RewardOf(user_question, docs, answer_len) ==
    IF <<user_question, [docs |-> docs, answer_len |-> answer_len]>>
           \in DOMAIN RewardOfInputs
    THEN RewardOfInputs[user_question, [docs |-> docs, answer_len |-> answer_len]]
    ELSE Reward(user_question, docs, answer_len)

----------------------------------------------------------------------------
(* RewardSpec: the reward of a question, the passages found and an answer *)

\* Questions: empty, blank, two words, a word twice, three words.
RewardQuestions ==
    {<<>>, <<" ", " ">>, RevenueQuestion, <<"S", "a", "l", "e", "s", " ", "s", "a", "l", "e", "s">>, <<"a", " ", "u", "p", " ", "c">>}

\* What the search returned.
RewardDocs ==
    {<<>>, <<RevenuePassage>>, <<OtherPassage>>, <<RevenuePassage, OtherPassage>>,
     <<RevenuePassage, OtherPassage, <<"G", "o", " ", "U", "P">>>>}

\* len(response_output)
AnswerLengths == {0, 1, 400, Milli, 2 * Milli}

RewardInit ==
    /\ rl_agent = RLAgent
    /\ conversation_history = <<>>
    /\ user_question_set = FALSE
    /\ rl_model_json = AbsentFile
    /\ \E q \in RewardQuestions, d \in RewardDocs, n \in AnswerLengths :
          last = [NoLast EXCEPT !.op = "answer", !.question = q, !.docs = d,
                                !.answer_len = n]
    /\ ops = 0
    /\ faiss_index = NoIndex
    /\ threads = NoThreads

ComputeReward ==
    /\ ops = 0
    /\ last' = [last EXCEPT
                  !.op = "reward",
                  !.similarity = get_document_similarity(last.question, last.docs),
                  !.length_score = response_length_score(last.answer_len),
                  !.reward = Reward(last.question, last.docs, last.answer_len)]
    /\ ops' = 1
    /\ UNCHANGED <<rl_agent, conversation_history, user_question_set, rl_model_json,
                   faiss_index, threads>>

RewardNext == ComputeReward

RewardSpec == RewardInit /\ [][RewardNext]_vars

\* C15: the reward is 0.7 * similarity + 0.3 * length score (rounded down
\* to the thousandth) and lies in [0, 1], and so do the two scores, for
\* every question, every list of passages and every answer length.
C15_RewardInUnitInterval ==
    last.op = "reward" =>
        /\ last.similarity \in 0..Milli
        /\ last.length_score \in 0..Milli
        /\ 10 * last.reward <= 7 * last.similarity + 3 * last.length_score
        /\ 10 * (last.reward + 1) > 7 * last.similarity + 3 * last.length_score
        /\ last.reward \in 0..Milli

\* C15's case: the reward of an answer longer than 1000 characters whose
\* passages hold some of the question's words but not all.
C15_Witness ==
    /\ last.op = "reward"
    /\ last.answer_len > Milli
    /\ Len(last.docs) > 1
    /\ last.similarity > 0 /\ last.similarity < Milli
    /\ last.reward > 3 * (Milli \div 10)

----------------------------------------------------------------------------
(* user_input *)

\* The steps of the document path that can raise, in the order they run.
DocSteps == <<"extract", "embed_query", "index", "search", "answer", "update", "save">>

StepIndex(step) == CHOOSE i \in 1..Len(DocSteps) : DocSteps[i] = step

\* The pass gets past step when nothing at or before it fails.
Passes(failed, step) == failed = "none" \/ StepIndex(step) < StepIndex(failed)

\* As ConversationRecord, but the action logged is always the default one.
ConversationRecordDefaultAction(user_question, model, action, reward) ==
    [question |-> user_question, model |-> model,
     action |-> IF action = "direct_query" THEN action ELSE "chunk_medium",
     reward |-> reward]

\* The tuple appended to conversation_history: the question, the model label,
\* the action and the reward text (the answer, the timestamp and the joined
\* file names, which no operation reads back, are left out).
ConversationRecord(user_question, model, action, reward) ==
    [question |-> user_question, model |-> model, action |-> action, reward |-> reward]

\* The RLAgent user_input builds when it is given None: load_model in a
\* try/except that goes on either way.
LazyAgent(file) == load_model(RLAgent, file).agent

\* The result of user_input: what it returned ("agent", "None", or "raised"
\* when an exception left it), and the objects it was passed, as it left them.
NoResult ==
    [returned |-> "agent", agent |-> NoneAgent, history |-> <<>>, file |-> AbsentFile,
     path |-> "", failed |-> "none", reported |-> FALSE, answer_calls |-> 0,
     state |-> NoneKey, action |-> "", reward |-> 0, explored |-> FALSE,
     was_seen |-> FALSE, is_pdf |-> FALSE, chunk |-> <<0, 0>>, search |-> ""]

\* As GeneralPath, but the table is written to the file after the answer.
GeneralPathSaving(user_question, api_key, pdf_docs, history, agent, file, ext) ==
    [NoResult EXCEPT
        !.agent = agent, !.path = "general", !.answer_calls = 1,
        !.file = IF ext.fail = "answer" THEN file ELSE WrittenFile(agent.q_table),
        !.failed = IF ext.fail = "answer" THEN "answer" ELSE "none",
        !.reported = (ext.fail = "answer"),
        !.action = IF ext.fail = "answer" THEN "" ELSE "direct_query",
        !.history =
            IF ext.fail = "answer" THEN history
            ELSE Append(history, [question |-> user_question,
                                  model |-> "Direct Google AI",
                                  action |-> "direct_query", reward |-> <<"N/A">>])]

\* As GeneralPath, but the question is logged before the answer is asked for.
GeneralPathLogsFirst(user_question, api_key, pdf_docs, history, agent, file, ext) ==
    [NoResult EXCEPT
        !.agent = agent, !.file = file, !.path = "general", !.answer_calls = 1,
        !.failed = IF ext.fail = "answer" THEN "answer" ELSE "none",
        !.reported = (ext.fail = "answer"),
        !.action = IF ext.fail = "answer" THEN "" ELSE "direct_query",
        !.history = Append(history, [question |-> user_question,
                                     model |-> "Direct Google AI",
                                     action |-> "direct_query", reward |-> <<"N/A">>])]

\* The general path: one call of enhanced_direct_gemini_response in a
\* try/except.
GeneralPath(user_question, api_key, pdf_docs, history, agent, file, ext) ==
    LET raises == ext.fail = "answer"
        base == [NoResult EXCEPT !.agent = agent, !.file = file, !.path = "general",
                                 !.answer_calls = 1]
    IN  IF raises
        THEN [base EXCEPT !.history = history, !.failed = "answer", !.reported = TRUE]
        ELSE [base EXCEPT !.history =
                  Append(history,
                         ConversationRecord(user_question, "Direct Google AI",
                                            "direct_query", <<"N/A">>)),
                          !.action = "direct_query"]

\* As DocumentPathFrom, but save_model is called before update_q_value: the
\* file gets the table as choose_action left it.
DocumentPathFromSaveFirst(user_question, history, agent, file, ext, state_key, reward, chosen, updated) ==
    LET failed == IF Passes(ext.fail, "update") /\ updated.exc THEN "update" ELSE ext.fail
        base == [NoResult EXCEPT !.path = "document", !.failed = failed,
                                 !.history = history, !.file = file,
                                 !.returned = IF failed = "none" THEN "agent" ELSE "raised",
                                 !.agent = chosen.agent, !.state = state_key,
                                 !.action = chosen.ret, !.explored = chosen.explored,
                                 !.was_seen = Has(agent.q_table, state_key),
                                 !.chunk = ChunkParams(chosen.ret),
                                 !.search = IF Passes(failed, "index")
                                            THEN SearchStrategy(chosen.ret) ELSE ""]
    IN  IF ~Passes(failed, "search") THEN base
        ELSE IF ~Passes(failed, "answer") THEN [base EXCEPT !.answer_calls = 1]
        ELSE IF ~Passes(failed, "update")
             THEN [base EXCEPT !.answer_calls = 1, !.reward = reward,
                               !.agent = updated.agent]
        ELSE IF ~Passes(failed, "save")
             THEN [base EXCEPT !.answer_calls = 1, !.reward = reward,
                               !.agent = updated.agent,
                               !.file = save_model(chosen.agent, file, ext.save).file]
        ELSE [base EXCEPT !.answer_calls = 1, !.reward = reward,
                          !.agent = updated.agent,
                          !.file = save_model(chosen.agent, file, "ok").file,
                          !.history =
                              Append(history,
                                     ConversationRecord(user_question, "Google AI",
                                                        chosen.ret, Fmt2(reward)))]

\* The document path from the choice of the action on; chosen is what
\* choose_action returned, updated what update_q_value returned.
DocumentPathFrom(user_question, history, agent, file, ext, state_key, reward, chosen, updated) ==
    LET failed == IF Passes(ext.fail, "update") /\ updated.exc THEN "update" ELSE ext.fail
        base == [NoResult EXCEPT !.path = "document", !.failed = failed,
                                 !.history = history, !.file = file,
                                 !.returned = IF failed = "none" THEN "agent" ELSE "raised",
                                 !.agent = chosen.agent, !.state = state_key,
                                 !.action = chosen.ret, !.explored = chosen.explored,
                                 !.was_seen = Has(agent.q_table, state_key),
                                 !.chunk = ChunkParams(chosen.ret),
                                 !.search = IF Passes(failed, "index")
                                            THEN SearchStrategy(chosen.ret) ELSE ""]
    IN  IF ~Passes(failed, "search") THEN base
        ELSE IF ~Passes(failed, "answer") THEN [base EXCEPT !.answer_calls = 1]
        ELSE IF ~Passes(failed, "update")
             THEN [base EXCEPT !.answer_calls = 1, !.reward = reward,
                               !.agent = updated.agent]
        ELSE IF ~Passes(failed, "save")
             THEN [base EXCEPT !.answer_calls = 1, !.reward = reward,
                               !.agent = updated.agent,
                               !.file = save_model(updated.agent, file, ext.save).file]
        ELSE [base EXCEPT !.answer_calls = 1, !.reward = reward,
                          !.agent = updated.agent,
                          !.file = save_model(updated.agent, file, "ok").file,
                          !.history =
                              Append(history,
                                     ConversationRecord(user_question, "Google AI",
                                                        chosen.ret, Fmt2(reward)))]

\* As DocumentPath, but the state key also holds the number of records of the
\* conversation history.
DocumentPathKeyWithTurn(user_question, api_key, pdf_docs, history, agent, file, ext) ==
    IF ~Passes(ext.fail, "embed_query")
    THEN [NoResult EXCEPT !.path = "document", !.failed = ext.fail,
                          !.history = history, !.agent = agent, !.file = file,
                          !.returned = "raised"]
    ELSE LET doc_ids == [i \in 1..Len(pdf_docs) |-> Take(pdf_docs[i], 5)]
             state_key == get_state_key(ext.embedding, doc_ids)
                              \o <<"-", ToString(Len(history))>>
             reward == RewardOf(user_question, ext.docs, ext.answer_len)
         IN  Local(state_key, LAMBDA key :
             Local(reward, LAMBDA rw :
             Local(choose_action(agent, key, available_actions, ext.u, ext.pick),
                   LAMBDA chosen :
             Local(update_q_value(chosen.agent, key, chosen.ret, rw, NoneKey),
                   LAMBDA updated :
                 DocumentPathFrom(user_question, history, agent, file, ext, key, rw,
                                  chosen, updated)))))

\* The document path.  Nothing in it catches an exception.
DocumentPath(user_question, api_key, pdf_docs, history, agent, file, ext) ==
    IF ~Passes(ext.fail, "embed_query")
    THEN [NoResult EXCEPT !.path = "document", !.failed = ext.fail,
                          !.history = history, !.agent = agent, !.file = file,
                          !.returned = "raised"]
    ELSE LET doc_ids == [i \in 1..Len(pdf_docs) |-> Take(pdf_docs[i], 5)]
             state_key == get_state_key(ext.embedding, doc_ids)
             reward == RewardOf(user_question, ext.docs, ext.answer_len)
         IN  Local(state_key, LAMBDA key :
             Local(reward, LAMBDA rw :
             Local(choose_action(agent, key, available_actions, ext.u, ext.pick),
                   LAMBDA chosen :
             Local(update_q_value(chosen.agent, key, chosen.ret, rw, NoneKey),
                   LAMBDA updated :
                 DocumentPathFrom(user_question, history, agent, file, ext, key, rw,
                                  chosen, updated)))))

\* user_input (the definition in force, the second of the file).
user_input(user_question, api_key, pdf_docs, history, rl_agent_arg, file, ext) ==
    IF api_key = NoApiKey
    THEN [NoResult EXCEPT !.returned = "None", !.agent = rl_agent_arg,
                          !.history = history, !.file = file, !.path = "no_key",
                          !.reported = TRUE]
    ELSE LET is_pdf_question == IsPdfQuestion(user_question, pdf_docs)
             agent == IF rl_agent_arg.none THEN LazyAgent(file) ELSE rl_agent_arg
         IN  [(IF ~is_pdf_question \/ Len(pdf_docs) = 0
               THEN GeneralPath(user_question, api_key, pdf_docs, history, agent, file, ext)
               ELSE DocumentPath(user_question, api_key, pdf_docs, history, agent, file, ext))
              EXCEPT !.is_pdf = is_pdf_question]

----------------------------------------------------------------------------
(* What the services and the random source do in a run *)

\* Positions random.choice draws in available_actions.
ExplorePicks == {1, 3, 5}

\* The draws of choose_action; random.choice is only called when exploring.
ChoiceExts(user_question, exploration_rate) ==
    UNION {{[NoExt EXCEPT !.u = u, !.pick = pick,
                          !.embedding = EmbedQuery(user_question)] :
               pick \in IF u < exploration_rate THEN ExplorePicks ELSE {1}} :
           u \in Draws}

\* What the services, the random source and the file system do in one
\* document-path pass: a step raises, or all of them return.  Without a key
\* the services accept, the first call of a service raises whatever else.
DocumentExts(user_question, exploration_rate, api_key) ==
    {[NoExt EXCEPT !.fail = f] : f \in {"extract", "embed_query"}}
    \cup
    IF ~KeyAccepted(api_key) THEN {}
    ELSE {[x EXCEPT !.fail = f] :
            x \in ChoiceExts(user_question, exploration_rate),
            f \in {"index", "search", "answer"}}
         \cup {[x EXCEPT !.docs = o.docs, !.answer_len = o.answer_len] :
            x \in ChoiceExts(user_question, exploration_rate), o \in PassOutcomes}
         \cup {[x EXCEPT !.docs = o.docs, !.answer_len = o.answer_len,
                         !.fail = "save", !.save = sv] :
            x \in ChoiceExts(user_question, exploration_rate), o \in PassOutcomes,
            sv \in SaveOutcomes \ {"ok"}}

\* What the answer service does in a general-path pass.
GeneralExts(api_key) ==
    IF KeyAccepted(api_key) THEN {NoExt, [NoExt EXCEPT !.fail = "answer"]}
    ELSE {[NoExt EXCEPT !.fail = "answer"]}

----------------------------------------------------------------------------
(* main: one run of the script *)

\* The pdf_docs main passes to user_input for the chat mode (None is <<>>).
DocsArgument(chat_mode, pdf_docs) ==
    IF chat_mode = "PDF Only" /\ Len(pdf_docs) > 0 THEN pdf_docs
    ELSE IF chat_mode = "General Only" THEN <<>>
    ELSE pdf_docs

\* As AfterButtons, but Reset leaves the conversation history as it is.
AfterButtonsResetKeepsLog(S, button) ==
    IF button = "reset"
    THEN [S EXCEPT !.user_question_set = TRUE, !.rl_agent = RLAgent]
    ELSE IF button = "rerun" /\ S.user_question_set
              /\ Len(S.conversation_history) > 0
         THEN [S EXCEPT !.conversation_history =
                   SubSeq(S.conversation_history, 1, Len(S.conversation_history) - 1)]
    ELSE S

\* The session after the Reset / Rerun buttons are handled.  Reset ends in
\* st.experimental_rerun(), which starts the script again with no button.
AfterButtons(S, button) ==
    IF button = "reset"
    THEN [S EXCEPT !.conversation_history = <<>>, !.user_question_set = TRUE,
                   !.rl_agent = RLAgent]
    ELSE IF button = "rerun" /\ S.user_question_set
              /\ Len(S.conversation_history) > 0
         THEN [S EXCEPT !.conversation_history =
                   SubSeq(S.conversation_history, 1, Len(S.conversation_history) - 1)]
    ELSE S

\* The external outcomes a run with these inputs can meet.
ExtsOf(inp) ==
    IF Len(inp.user_question) = 0 \/ inp.api_key = NoApiKey THEN {NoExt}
    ELSE IF IsPdfQuestion(inp.user_question, inp.docs_arg)
         THEN DocumentExts(inp.user_question, inp.exploration_rate, inp.api_key)
         ELSE GeneralExts(inp.api_key)

\* The end of a run in which user_input was called and left r.
AfterUserInput(S2, inp, ext, r) ==
    [S |-> [rl_agent |-> IF r.returned = "None" THEN NoneAgent ELSE r.agent,
            conversation_history |-> r.history,
            user_question_set |->
                IF r.returned = "raised" THEN S2.user_question_set ELSE TRUE],
     file |-> r.file,
     info |-> [NoLast EXCEPT
                 !.op = "run", !.button = inp.button, !.api_key = inp.api_key,
                 !.asked = TRUE, !.path = r.path, !.failed = r.failed,
                 !.returned = r.returned, !.unhandled = (r.returned = "raised"),
                 !.reported = r.reported, !.answer_calls = r.answer_calls,
                 !.state = r.state, !.action = r.action, !.reward = r.reward,
                 !.explored = r.explored, !.was_seen = r.was_seen, !.u = ext.u,
                 !.question = inp.user_question, !.pdf_docs = inp.docs_arg,
                 !.is_pdf = r.is_pdf, !.chunk = r.chunk, !.search = r.search]]

\* The session as user_input gets it: after the buttons are handled and the
\* sliders are copied into the agent.
BeforeUserInput(S, inp) ==
    [AfterButtons(S, inp.button) EXCEPT
        !.rl_agent.learning_rate = inp.learning_rate,
        !.rl_agent.exploration_rate = inp.exploration_rate]

\* One run of main from session S: the session and the file after it, and
\* what happened.
Run(S, file, inp, ext) ==
    LET info == [NoLast EXCEPT !.op = "run", !.button = inp.button,
                               !.api_key = inp.api_key]
    IN  IF AfterButtons(S, inp.button).rl_agent.none
        THEN \* rl_agent.learning_rate = ... on None: AttributeError
             [S |-> AfterButtons(S, inp.button), file |-> file,
              info |-> [info EXCEPT !.path = "crash", !.unhandled = TRUE]]
        ELSE IF Len(inp.user_question) = 0
        THEN [S |-> BeforeUserInput(S, inp), file |-> file,
              info |-> [info EXCEPT !.path = "idle"]]
        ELSE Local(BeforeUserInput(S, inp), LAMBDA S2 :
             Local(user_input(inp.user_question, inp.api_key, inp.docs_arg,
                              S2.conversation_history, S2.rl_agent, file, ext),
                   LAMBDA r : AfterUserInput(S2, inp, ext, r)))

Session ==
    [rl_agent |-> rl_agent, conversation_history |-> conversation_history,
     user_question_set |-> user_question_set]

\* The pdf_docs arguments main can pass: every chat mode with every upload.
DocsArguments == {DocsArgument(m, d) : m \in ChatModes, d \in PdfDocChoices}

\* The widgets of a run: the button pressed, the sliders, the question box,
\* the key box, and the pdf_docs the chat mode and the uploads give.
RunInputs(button, questions) ==
    [button : {button}, learning_rate : SliderLearningRates,
     exploration_rate : SliderExplorationRates, docs_arg : DocsArguments,
     user_question : questions, api_key : ApiKeys]

ScriptRun(inp) ==
    /\ \E ext \in ExtsOf(inp) :
       \E r \in {Run(Session, rl_model_json, inp, ext)} :
          /\ rl_agent' = r.S.rl_agent
          /\ conversation_history' = r.S.conversation_history
          /\ user_question_set' = r.S.user_question_set
          /\ rl_model_json' = r.file
          /\ \E dir \in {IF r.info.search = "" THEN faiss_index
                          ELSE get_vector_store(
                                   get_text_chunks(inp.docs_arg, r.info.chunk),
                                   ops + 1, faiss_index)} :
                /\ faiss_index' = dir
                /\ last' = [r.info EXCEPT
                              !.log_before = Len(conversation_history),
                              !.searched = IF r.info.search = "" THEN NoIndex
                                           ELSE load_local(dir)]
    /\ ops' = ops + 1
    /\ UNCHANGED threads

\* A widget other than the buttons changes while the question box is empty.
Rerender ==
    /\ ops < MaxRuns
    /\ \E inp \in RunInputs("none", {<<>>}) : ScriptRun(inp)

\* A question is entered.
Ask ==
    /\ ops < MaxRuns
    /\ \E inp \in RunInputs("none", Questions) : ScriptRun(inp)

\* The Reset button, with whatever is in the question box.
Reset ==
    /\ ops < MaxRuns
    /\ \E inp \in RunInputs("reset", Questions \cup {<<>>}) : ScriptRun(inp)

\* The Rerun button, with whatever is in the question box.
Rerun ==
    /\ ops < MaxRuns
    /\ \E inp \in RunInputs("rerun", Questions \cup {<<>>}) : ScriptRun(inp)

\* A table an earlier session saved.
SavedTable ==
    update_q_value(RLAgent,
                   get_state_key(<<124, -450, 0, 1000, 15, 777>>, <<Take(ReportPdf, 5)>>),
                   "chunk_medium", 615, NoneKey).agent.q_table

\* A file that is JSON but not a table of the five actions: the row of the
\* state of RevenueQuestion with the two uploads has one action only.
PartialTable ==
    <<[k |-> get_state_key(EmbedQuery(RevenueQuestion),
                           <<Take(ReportPdf, 5), Take(NotesPdf, 5)>>),
       v |-> <<[k |-> "chunk_small", v |-> Milli \div 2]>>]>>

PartialTableFile == WrittenFile(PartialTable)

InitFiles == {AbsentFile, MalformedFile, WrittenFile(SavedTable), PartialTableFile}

\* An index an earlier session left: the report alone, in medium chunks.
\* (The directory outlives the session; a pass saves it before it loads it.)
EarlierIndex ==
    [status |-> "saved", built_in |-> 0, chunk |-> ChunkParams("chunk_medium"),
     pdf_docs |-> <<ReportPdf>>]

\* The session after main has set it up: RLAgent() and load_model() in a
\* try/except that passes.
Init ==
    /\ \E f \in InitFiles :
          /\ rl_model_json = f
          /\ rl_agent = load_model(RLAgent, f).agent
    /\ conversation_history = <<>>
    /\ user_question_set = FALSE
    /\ last = NoLast
    /\ ops = 0
    /\ faiss_index = EarlierIndex
    /\ threads = NoThreads

Next == Rerender \/ Ask \/ Reset \/ Rerun

Spec == Init /\ [][Next]_vars

----------------------------------------------------------------------------
(* Claims about the script runs (Spec) *)

\* The session as the pass of a run finds it: after the run's button.
\* (A run's button is in last', the session before the run in the unprimed
\* variables.)

\* C5 as claimed: a document-path pass in which a step fails leaves the
\* in-memory table and the conversation log as they were before the pass.
C5_FailedPassChangesNothing ==
    [][(last'.op = "run" /\ last'.path = "document" /\ last'.failed /= "none") =>
         /\ rl_agent'.q_table = AfterButtons(Session, last'.button).rl_agent.q_table
         /\ conversation_history' =
                AfterButtons(Session, last'.button).conversation_history]_vars

\* C6: a completed document-path pass leaves every entry of the table other
\* than Q[state][action] as it was (zero in a row the pass creates, which has
\* the five actions), sets Q[state][action] by the update rule with no
\* successor state, and appends one record with that action and the reward
\* of the update as two-decimal text.
C6_CompletedPass ==
    [][(last'.op = "run" /\ last'.path = "document" /\ last'.failed = "none") =>
         LET pre == AfterButtons(Session, last'.button)
             q == pre.rl_agent.q_table
             q2 == rl_agent'.q_table
             s == last'.state
             a == last'.action
             old == EntryOrZero(q, s, a)
             new == EntryOrZero(q2, s, a)
             lr == rl_agent'.learning_rate
             rec == conversation_history'[Len(conversation_history')]
         IN  /\ Keys(q2) = Keys(q) \cup {s}
             /\ \A t \in Keys(q2) :
                    /\ Keys(Get(q2, t)) = IF Has(q, t) THEN Keys(Get(q, t))
                                          ELSE Range(available_actions)
                    /\ \A b \in Keys(Get(q2, t)) :
                           (t /= s \/ b /= a) => Get(Get(q2, t), b) = EntryOrZero(q, t, b)
             /\ Has(Get(q2, s), a)
             /\ 100 * 100 * (new - old) <= lr * (100 * last'.reward - 100 * old)
             /\ 100 * 100 * (new - old + 1) > lr * (100 * last'.reward - 100 * old)
             /\ Len(conversation_history') = Len(pre.conversation_history) + 1
             /\ SubSeq(conversation_history', 1, Len(pre.conversation_history))
                    = pre.conversation_history
             /\ rec.action = a
             /\ rec.reward /= <<"N/A">>
             /\ \E n \in 0..100 : /\ rec.reward = <<ToString(n)>>
                                  /\ 10 * n - last'.reward \in -5..5]_vars

\* C6's case: a completed pass on a state that had a row, in a table with
\* another row, with a reward above zero.
C6_Witness ==
    /\ last.op = "run" /\ last.path = "document" /\ last.failed = "none"
    /\ last.was_seen /\ last.reward > 0
    /\ Cardinality(Keys(rl_agent.q_table)) > 1
    /\ Len(conversation_history) > 1
    /\ conversation_history[Len(conversation_history)].action = last.action

\* C7: a general-path pass that succeeds appends one record with action
\* "direct_query" and reward "N/A" and leaves the in-memory table and the file
\* as they were.
C7_GeneralPass ==
    [][(last'.op = "run" /\ last'.path = "general" /\ last'.failed = "none") =>
         LET pre == AfterButtons(Session, last'.button)
             rec == conversation_history'[Len(conversation_history')]
         IN  /\ Len(conversation_history') = Len(pre.conversation_history) + 1
             /\ SubSeq(conversation_history', 1, Len(pre.conversation_history))
                    = pre.conversation_history
             /\ rec.action = "direct_query"
             /\ rec.reward = <<"N/A">>
             /\ rl_agent'.q_table = pre.rl_agent.q_table
             /\ rl_model_json' = rl_model_json]_vars

\* C7's case: a general-path pass succeeded in a session with a table that
\* has values and differs from the file.
C7_Witness ==
    /\ last.op = "run" /\ last.path = "general" /\ last.failed = "none"
    /\ Len(rl_agent.q_table) > 0
    /\ rl_model_json /= WrittenFile(rl_agent.q_table)
    /\ conversation_history[Len(conversation_history)].action = "direct_query"

\* C8: when the answer call of the general path raises, the error is
\* reported, the call was made once, no record is appended, the table is as
\* it was and user_input returns the controller it was given.
C8_GeneralFailure ==
    [][(last'.op = "run" /\ last'.path = "general" /\ last'.failed = "answer") =>
         LET pre == AfterButtons(Session, last'.button)
         IN  /\ last'.reported /\ ~last'.unhandled
             /\ last'.answer_calls = 1
             /\ conversation_history' = pre.conversation_history
             /\ last'.returned = "agent"
             /\ rl_agent' = [pre.rl_agent EXCEPT
                               !.learning_rate = rl_agent'.learning_rate,
                               !.exploration_rate = rl_agent'.exploration_rate]
             /\ ~rl_agent'.none
             /\ rl_model_json' = rl_model_json]_vars

\* C8's case: the answer call raised, with a key the service accepts, in a
\* session that has a log and a table.
C8_Witness ==
    /\ last.op = "run" /\ last.path = "general" /\ last.failed = "answer"
    /\ last.api_key = GoodApiKey
    /\ Len(conversation_history) > 0
    /\ Len(rl_agent.q_table) > 0

C10_PersistFailureRecoverable ==
    (last.op = "run" /\ last.path = "document" /\ last.failed = "save")
        => (last.reported /\ ~last.unhandled)

\* The file holds a table: JSON whose rows have the five actions.
WellFormedTableFile(file) ==
    /\ file.status = "ok"
    /\ \A i \in 1..Len(file.text) : Keys(file.text[i].v) = Range(canonical_actions)

\* C12 as claimed: when the session starts with an rl_model.json that does not
\* hold a table, the agent's table is empty after the start.
C12_MalformedAsAbsent ==
    (/\ last.op = "init"
     /\ rl_model_json.status /= "absent"
     /\ ~WellFormedTableFile(rl_model_json))
        => rl_agent.q_table = EmptyDict

\* C14: a question asked with a key and no uploads (pdf_docs empty or None)
\* is classified as general and takes the general path; with or without a
\* key it never takes the document path.
C14_NoDocsGeneral ==
    [][(last'.op = "run" /\ last'.asked /\ Len(last'.pdf_docs) = 0) =>
         /\ ~last'.is_pdf
         /\ last'.path /= "document"
         /\ (last'.api_key /= NoApiKey => last'.path = "general")
         /\ rl_agent'.none \/
               rl_agent'.q_table = AfterButtons(Session, last'.button).rl_agent.q_table]_vars

\* C14's case: a question that is document-related with uploads was asked
\* without them, with a key the service accepts.
C14_Witness ==
    /\ last.op = "run" /\ last.asked /\ Len(last.pdf_docs) = 0
    /\ last.question = RevenueQuestion
    /\ is_pdf_related_question(last.question, <<ReportPdf, NotesPdf>>)
    /\ last.api_key = GoodApiKey
    /\ last.path = "general" /\ last.failed = "none"

\* C16 as claimed: every step leaves the log of before as a prefix of the
\* log.
C16_AppendOnly ==
    [][/\ Len(conversation_history') >= Len(conversation_history)
       /\ SubSeq(conversation_history', 1, Len(conversation_history))
              = conversation_history]_vars

\* C16, amended: user_input only appends, one record for the question of a
\* pass that completes and none otherwise; before it, Reset empties the log
\* and Rerun, once 'user_question' is in the session state, removes the last
\* record; nothing else changes the log.
C16_AppendAfterButtons ==
    [][last'.op = "run" =>
         LET log == conversation_history
             kept == IF last'.button = "reset" THEN <<>>
                     ELSE IF last'.button = "rerun" /\ user_question_set /\ Len(log) > 0
                          THEN SubSeq(log, 1, Len(log) - 1)
                     ELSE log
             log2 == conversation_history'
         IN  IF last'.path \in {"general", "document"} /\ last'.failed = "none"
             THEN /\ Len(log2) = Len(kept) + 1
                  /\ SubSeq(log2, 1, Len(kept)) = kept
                  /\ log2[Len(log2)].question = last'.question
             ELSE log2 = kept]_vars

\* C16's case: Rerun was pressed with an empty question box on a log of one
\* record, and the log is empty.
C16_Witness ==
    /\ last.op = "run" /\ last.button = "rerun" /\ last.path = "idle"
    /\ last.log_before = 1
    /\ conversation_history = <<>>

\* C17 as claimed: every agent is given the persisted table when it is
\* constructed, so a step that writes rl_model.json over a table keeps every
\* state that table had.
C17_PersistedRowsKept ==
    [][(rl_model_json.status = "ok" /\ rl_model_json'.status = "ok") =>
         Keys(json_load(rl_model_json.text)) \subseteq
             Keys(json_load(rl_model_json'.text))]_vars

C19_WrittenBack ==
    [][(last'.op = "run" /\ last'.path = "document") =>
         LET pre == AfterButtons(Session, last'.button)
         IN  /\ last'.failed = "none" =>
                   /\ rl_model_json'.status = "ok"
                   /\ json_load(rl_model_json'.text) = rl_agent'.q_table
                   /\ Len(conversation_history') = Len(pre.conversation_history) + 1
             /\ last'.failed = "save" =>
                   /\ Has(rl_agent'.q_table, last'.state)
                   /\ LET old == EntryOrZero(pre.rl_agent.q_table, last'.state, last'.action)
                          new == EntryOrZero(rl_agent'.q_table, last'.state, last'.action)
                          lr == rl_agent'.learning_rate
                      IN  /\ 100 * 100 * (new - old) <= lr * (100 * last'.reward - 100 * old)
                          /\ 100 * 100 * (new - old + 1)
                                 > lr * (100 * last'.reward - 100 * old)
                   /\ conversation_history' = pre.conversation_history
             /\ last'.failed \notin {"none", "save"} => rl_model_json' = rl_model_json]_vars

\* C19's case: a completed document-path pass changed a value of a row the
\* table had, and the file held another table before.
C19_Witness ==
    /\ last.op = "run" /\ last.path = "document" /\ last.failed = "none"
    /\ last.was_seen /\ last.reward > 0 /\ ops = 2
    /\ rl_model_json = WrittenFile(rl_agent.q_table)
    /\ Get(Get(rl_agent.q_table, last.state), last.action) > 0

\* C20 as claimed: a pass whose action is a retrieval action, after a pass
\* whose action was a chunking action, splits the text with the chunk size
\* and overlap of that chunking action.
C20_KeepsLastChunking ==
    [][(/\ last.op = "run" /\ last.path = "document" /\ last.search /= ""
        /\ last.action \in Range(chunking_actions)
        /\ last'.op = "run" /\ last'.path = "document" /\ last'.search /= ""
        /\ last'.action \in Range(retrieval_actions)) =>
         last'.chunk = last.chunk]_vars

\* C21: the index a document-path pass searches is the one that pass built
\* and saved: built in this pass, from the text of this pass's uploads, cut
\* with the size and overlap of this pass's action; it is not the index the
\* directory held before the pass.
C21_FreshIndex ==
    [][(last'.op = "run" /\ last'.path = "document" /\ last'.search /= "") =>
         /\ last'.searched.status = "saved"
         /\ last'.searched.built_in = ops'
         /\ last'.searched.pdf_docs = last'.pdf_docs
         /\ last'.searched.chunk =
                IF last'.action = "chunk_small" THEN <<5000, 500>>
                ELSE IF last'.action = "chunk_medium" THEN <<10000, 1000>>
                ELSE <<15000, 1500>>
         /\ last'.searched /= faiss_index
         /\ faiss_index' = last'.searched]_vars

\* C21's case: the second pass of a session searched, after a first pass
\* that had built an index with another chunking.
C21_Witness ==
    /\ ops = 2 /\ last.op = "run" /\ last.path = "document" /\ last.search /= ""
    /\ last.was_seen /\ last.action = "similarity_mmr"
    /\ Len(conversation_history) = 2
    /\ conversation_history[1].action = "chunk_small"
    /\ last.searched.built_in = 2

\* Every row of the table has the five actions as its keys.
RowsHaveFiveActions(q) ==
    \A s \in Keys(q) :
        Keys(Get(q, s)) = {"chunk_small", "chunk_medium", "chunk_large",
                           "similarity_standard", "similarity_mmr"}

\* C22: a run that starts with a table whose rows all have the five actions
\* (the empty table is one) ends with such a table, and update_q_value does
\* not raise in it; so from an empty table every row has the five actions
\* after any sequence of questions.
C22_FiveActionRows ==
    [][(last'.op = "run" /\ RowsHaveFiveActions(rl_agent.q_table)) =>
         /\ RowsHaveFiveActions(rl_agent'.q_table)
         /\ last'.failed /= "update"]_vars

\* C22's case: two passes from an empty table, the first with the action
\* choose_action took from the row it made, the second with an explored
\* action, and the row has the five actions.
C22_Witness ==
    /\ ops = 2 /\ last.op = "run" /\ last.path = "document" /\ last.failed = "none"
    /\ last.explored /\ last.action = "similarity_mmr"
    /\ Len(conversation_history) = 2
    /\ Cardinality(Keys(rl_agent.q_table)) = 1
    /\ RowsHaveFiveActions(rl_agent.q_table)
    /\ Get(Get(rl_agent.q_table, last.state), "chunk_small") > 0

----------------------------------------------------------------------------
(* The range of the values (AgentSpec) *)

\* Every value of the table is in [0, 1].
ValuesInUnitInterval(q) ==
    \A s \in Keys(q) : \A a \in Keys(Get(q, s)) :
        Get(Get(q, s), a) >= 0 /\ Get(Get(q, s), a) <= Milli

\* C24: with the learning rate in [0, 1] and a reward in [0, 1], an update
\* with no successor state takes a table whose values are all in [0, 1] to a
\* table whose values are all in [0, 1], and so does choosing an action (which
\* creates rows of zeros); the empty table of a new agent is such a table, so
\* the values stay in [0, 1] over any sequence of passes.
C24_ValuesStayInUnitInterval ==
    [][/\ (/\ last'.op = "update_q_value" /\ last'.next_state = NoneKey
           /\ rl_agent.learning_rate \in 0..Hundred
           /\ last'.reward \in 0..Milli
           /\ ValuesInUnitInterval(rl_agent.q_table))
          => ValuesInUnitInterval(rl_agent'.q_table)
       /\ (last'.op = "choose_action" /\ ValuesInUnitInterval(rl_agent.q_table))
          => ValuesInUnitInterval(rl_agent'.q_table)]_vars

\* C24's case: a second update with no successor state, at learning rate 1
\* and reward 1, has left the value 1 and all values in [0, 1].
C24_Witness ==
    /\ last.op = "update_q_value" /\ last.next_state = NoneKey /\ ~last.exc
    /\ last.was_seen /\ ops >= 2
    /\ rl_agent.learning_rate = Hundred /\ last.reward = Milli
    /\ EntryOrZero(rl_agent.q_table, last.state, last.action) = Milli
    /\ ValuesInUnitInterval(rl_agent.q_table)

----------------------------------------------------------------------------
(* UpdateRaceSpec: two update_q_value calls on one agent, for the same     *)
(* state and action, step by step and side by side                         *)

\* The state and the action of the two calls.
RaceState == get_state_key(<<124, -450, 0, 1000, 15, 777>>, <<Take(ReportPdf, 5)>>)

RaceAction == "chunk_medium"

\* The tables the calls start on: empty, and with a row for the state.
RaceTables == {EmptyDict, SavedTable}

\* Learning rate and discount factor of the agent.
RaceHyperparameters == {<<100, 0, 0>>, <<50, 90, 20>>}

\* A call that has not begun.
NewCall(reward) ==
    [pc |-> "check", reward |-> reward, seen |-> FALSE, read1 |-> 0, read2 |-> 0]

UpdateRaceInit ==
    /\ \E h \in RaceHyperparameters, q \in RaceTables :
          /\ rl_agent = [RLAgent EXCEPT !.learning_rate = h[1],
                                        !.discount_factor = h[2],
                                        !.exploration_rate = h[3],
                                        !.q_table = q]
          /\ last = [NoLast EXCEPT !.op = "race", !.state = RaceState,
                                   !.action = RaceAction,
                                   !.initial = EntryOrZero(q, RaceState, RaceAction)]
    /\ \E r1 \in Rewards, r2 \in Rewards : threads = <<NewCall(r1), NewCall(r2)>>
    /\ conversation_history = <<>>
    /\ user_question_set = FALSE
    /\ rl_model_json = AbsentFile
    /\ ops = 0
    /\ faiss_index = NoIndex

\* The other of the two calls.
Other(t) == 3 - t

\* `if state not in self.q_table`
RaceCheck(t) ==
    /\ threads[t].pc = "check"
    /\ threads' = [threads EXCEPT ![t].pc = "init",
                                  ![t].seen = Has(rl_agent.q_table, RaceState)]
    /\ last' = [last EXCEPT !.overlap =
                    last.overlap \/ threads[Other(t)].pc \notin {"check", "done"}]
    /\ ops' = ops + 1
    /\ UNCHANGED <<rl_agent, conversation_history, user_question_set, rl_model_json,
                   faiss_index>>

\* `self.q_table[state] = {a: 0.0 for a in [...]}` when the test found no row
RaceInitRow(t) ==
    /\ threads[t].pc = "init"
    /\ threads' = [threads EXCEPT ![t].pc = "read1"]
    /\ rl_agent' = IF threads[t].seen THEN rl_agent
                   ELSE [rl_agent EXCEPT !.q_table =
                            Put(rl_agent.q_table, RaceState, ZeroRow(canonical_actions))]
    /\ ops' = ops + 1
    /\ UNCHANGED <<conversation_history, user_question_set, rl_model_json, last,
                   faiss_index>>

\* The first self.q_table[state][action] of the right-hand side.
RaceRead1(t) ==
    /\ threads[t].pc = "read1"
    /\ threads' = [threads EXCEPT ![t].pc = "read2",
                                  ![t].read1 = Get(Get(rl_agent.q_table, RaceState),
                                                   RaceAction)]
    /\ ops' = ops + 1
    /\ UNCHANGED <<rl_agent, conversation_history, user_question_set, rl_model_json,
                   last, faiss_index>>

\* The second self.q_table[state][action] of the right-hand side.
RaceRead2(t) ==
    /\ threads[t].pc = "read2"
    /\ threads' = [threads EXCEPT ![t].pc = "write",
                                  ![t].read2 = Get(Get(rl_agent.q_table, RaceState),
                                                   RaceAction)]
    /\ ops' = ops + 1
    /\ UNCHANGED <<rl_agent, conversation_history, user_question_set, rl_model_json,
                   last, faiss_index>>

\* The store of the assignment.
RaceWrite(t) ==
    /\ threads[t].pc = "write"
    /\ threads' = [threads EXCEPT ![t].pc = "done"]
    /\ rl_agent' = [rl_agent EXCEPT !.q_table =
           Put(rl_agent.q_table, RaceState,
               Put(Get(rl_agent.q_table, RaceState), RaceAction,
                   UpdateWriteValue(threads[t].read1, threads[t].read2,
                                    rl_agent.learning_rate, threads[t].reward,
                                    rl_agent.discount_factor, 0)))]
    /\ last' = [last EXCEPT !.finished = Append(last.finished, t)]
    /\ ops' = ops + 1
    /\ UNCHANGED <<conversation_history, user_question_set, rl_model_json, faiss_index>>

UpdateRaceNext ==
    \E t \in {1, 2} :
        RaceCheck(t) \/ RaceInitRow(t) \/ RaceRead1(t) \/ RaceRead2(t) \/ RaceWrite(t)

UpdateRaceSpec == UpdateRaceInit /\ [][UpdateRaceNext]_vars

\* One update of value old with the reward, by the rule with no successor.
RuleStep(old, learning_rate, reward) ==
    old + (learning_rate * (100 * reward - 100 * old)) \div (100 * 100)

\* The value after the two updates, the call with reward ra first.
SerialValue(initial, learning_rate, ra, rb) ==
    RuleStep(RuleStep(initial, learning_rate, ra), learning_rate, rb)

\* C23: when the two calls run one after the other (the second begins when
\* the first has stored its value) the value left is that of the two updates
\* in the order the calls ran: no update is lost.  (That calls whose steps
\* interleave can lose one is C23_Witness.)
C23_SerializedKeepsBoth ==
    (last.op = "race" /\ Len(last.finished) = 2 /\ ~last.overlap) =>
        EntryOrZero(rl_agent.q_table, RaceState, RaceAction) =
            SerialValue(last.initial, rl_agent.learning_rate,
                        threads[last.finished[1]].reward,
                        threads[last.finished[2]].reward)

\* C23's case: the two calls interleaved, both have stored, and the value
\* left is that of neither serial order.
C23_Witness ==
    /\ last.op = "race" /\ Len(last.finished) = 2 /\ last.overlap
    /\ EntryOrZero(rl_agent.q_table, RaceState, RaceAction) /=
           SerialValue(last.initial, rl_agent.learning_rate,
                       threads[1].reward, threads[2].reward)
    /\ EntryOrZero(rl_agent.q_table, RaceState, RaceAction) /=
           SerialValue(last.initial, rl_agent.learning_rate,
                       threads[2].reward, threads[1].reward)

----------------------------------------------------------------------------
(* SessionsSpec: two sessions of the application, each in a document-path  *)
(* pass, in one working directory                                           *)

\* The uploads of a session.
SessionDocs == {<<ReportPdf>>, <<ReportPdf, NotesPdf>>}

\* A session whose pass has not begun.
IdleSession ==
    [pc |-> "idle", pdf_docs |-> <<>>, action |-> "", chunk |-> <<0, 0>>,
     built |-> 0, searched |-> NoIndex]

SessionsInit ==
    /\ threads = <<IdleSession, IdleSession>>
    /\ faiss_index \in {NoIndex, EarlierIndex}
    /\ rl_agent = RLAgent
    /\ conversation_history = <<>>
    /\ user_question_set = FALSE
    /\ rl_model_json = AbsentFile
    /\ last = [NoLast EXCEPT !.op = "sessions"]
    /\ ops = 0

\* user_input up to the chunking: the text of the uploads is read, an action
\* is chosen and the chunk sizes follow from it.
SessionChunk(t) ==
    /\ threads[t].pc = "idle"
    /\ \E docs \in SessionDocs, a \in Range(available_actions) :
          threads' = [threads EXCEPT ![t].pc = "save", ![t].pdf_docs = docs,
                                    ![t].action = a, ![t].chunk = ChunkParams(a)]
    /\ ops' = ops + 1
    /\ UNCHANGED <<rl_agent, conversation_history, user_question_set, rl_model_json,
                   last, faiss_index>>

\* get_vector_store(text_chunks): the index is built and saved over the
\* directory faiss_index.
SessionSave(t) ==
    /\ threads[t].pc = "save"
    /\ faiss_index' = get_vector_store(get_text_chunks(threads[t].pdf_docs,
                                                        threads[t].chunk),
                                        ops + 1, faiss_index)
    /\ threads' = [threads EXCEPT ![t].pc = "load", ![t].built = ops + 1]
    /\ ops' = ops + 1
    /\ UNCHANGED <<rl_agent, conversation_history, user_question_set, rl_model_json,
                   last>>

\* FAISS.load_local("faiss_index", ...) and the search on what it returned.
SessionLoad(t) ==
    /\ threads[t].pc = "load"
    /\ threads' = [threads EXCEPT ![t].pc = "done",
                                  ![t].searched = load_local(faiss_index)]
    /\ ops' = ops + 1
    /\ UNCHANGED <<rl_agent, conversation_history, user_question_set, rl_model_json,
                   last, faiss_index>>

SessionsNext == \E t \in {1, 2} : SessionChunk(t) \/ SessionSave(t) \/ SessionLoad(t)

SessionsSpec == SessionsInit /\ [][SessionsNext]_vars

\* C25: a session that has loaded the directory searches the index built in
\* its own pass, from its own uploads with its own chunk sizes.
C25_SearchesOwnIndex ==
    \A t \in {1, 2} :
        (last.op = "sessions" /\ threads[t].pc = "done") =>
            /\ threads[t].searched.built_in = threads[t].built
            /\ threads[t].searched.pdf_docs = threads[t].pdf_docs
            /\ threads[t].searched.chunk = threads[t].chunk

====
